---------------------------- MODULE Spec2Model ----------------------------
(***************************************************************************)
(* A model of castor.py, the JSON schema mitmproxy addon:                  *)
(*   - the format classifier match_data_type and its compiled patterns,    *)
(*   - the schema inference generate_schema,                               *)
(*   - the addon's response hook Castor.response with its environment      *)
(*     configuration.                                                      *)
(*                                                                         *)
(* A Python str is a sequence of characters; a character is a one-element  *)
(* TLA+ string, or a token "U+XXXX" for a code point that has no printable *)
(* ASCII form.                                                             *)
(***************************************************************************)
EXTENDS Integers, Sequences, FiniteSets, TLC

VARIABLES
    data, tag, cpc,              \* match_data_type: argument, result, position
    json_object, schema, ipc,    \* generate_schema: argument, result, position
    env, output, checks,         \* os.environ and the fields of Castor
    flow, outcome                \* the last flow handed to response and its effects

vars == <<data, tag, cpc, json_object, schema, ipc, env, output, checks, flow, outcome>>

(***************************************************************************)
(* Characters and the classes the patterns use.                            *)
(***************************************************************************)
NL == "\n"
TAB == "\t"
SP == " "
DEL == "U+007F"
NEL == "U+0085"
NBSP == "U+00A0"
EACUTE == "U+00E9"
ARABIC3 == "U+0663"

AsciiDigit == {"0", "1", "2", "3", "4", "5", "6", "7", "8", "9"}

LowerHex == {"a", "b", "c", "d", "e", "f"}

UpperHex == {"A", "B", "C", "D", "E", "F"}

Lower == LowerHex \cup {"g", "h", "i", "j", "k", "l", "m", "n", "o", "p", "q",
                        "r", "s", "t", "u", "v", "w", "x", "y", "z"}

Upper == UpperHex \cup {"G", "H", "I", "J", "K", "L", "M", "N", "O", "P", "Q",
                        "R", "S", "T", "U", "V", "W", "X", "Y", "Z"}

\* \d of a str pattern: every Unicode decimal digit, not only 0-9
UnicodeDigit == AsciiDigit \cup {ARABIC3}

\* [a-fA-F0-9]
HexDigit == LowerHex \cup UpperHex \cup AsciiDigit

\* [a-zA-Z0-9]
AlNum == Lower \cup Upper \cup AsciiDigit

\* [a-zA-Z0-9._%+-]
EmailLocal == AlNum \cup {".", "_", "%", "+", "-"}

\* [a-zA-Z0-9.-]
EmailDomain == AlNum \cup {".", "-"}

\* [a-zA-Z0-9:/?#\[\]@!$&'()*+,;=._%-]
UriChar == AlNum \cup {":", "/", "?", "#", "[", "]", "@", "!", "$", "&", "'",
                       "(", ")", "*", "+", ",", ";", "=", ".", "_", "%", "-"}

\* \x00-\x1F\x7F-\x9F and \s, the characters [^\x00-\x1F\x7F-\x9F\s] excludes
ControlOrSpace == {NL, TAB, DEL, NEL, SP, NBSP}

(***************************************************************************)
(* Regular expressions as trees, and re.Pattern.match on them.             *)
(***************************************************************************)
In(S) == [op |-> "in", chars |-> S]

NotIn(S) == [op |-> "notin", chars |-> S]

Lit(c) == In({c})

Cat(parts) == [op |-> "cat", parts |-> parts]

\* sub{lo,hi}
Rep(sub, lo, hi) == [op |-> "rep", sub |-> sub, lo |-> lo, hi |-> hi]

\* sub{lo,}: sub+ is Many(sub, 1), sub* is Many(sub, 0)
Many(sub, lo) == [op |-> "many", sub |-> sub, lo |-> lo]

\* (?:sub)?
Opt(sub) == Rep(sub, 0, 1)

\* ^
Bol == [op |-> "bol"]

\* $ without re.MULTILINE: the end, or just before a newline that ends the string
Eol == [op |-> "eol"]

\* . without re.DOTALL
Dot == NotIn({NL})

RECURSIVE Ends(_, _, _)
RECURSIVE CatEnds(_, _, _, _)
RECURSIVE RepEnds(_, _, _, _, _, _)

\* the positions at which a match of parts[k..] can end when it starts at one of I
CatEnds(parts, k, s, I) ==
    IF k > Len(parts) \/ I = {}
    THEN I
    ELSE CatEnds(parts, k + 1, s, UNION {Ends(parts[k], s, i) : i \in I})

\* the positions reached after n, n+1, ... repetitions of sub, n of them made to reach I;
\* hi < 0 stands for no upper limit
RepEnds(sub, lo, hi, s, I, n) ==
    (IF n >= lo THEN I ELSE {})
    \cup (IF I # {} /\ n <= Len(s) /\ (hi < 0 \/ n < hi)
          THEN RepEnds(sub, lo, hi, s, UNION {Ends(sub, s, i) : i \in I}, n + 1)
          ELSE {})

\* the positions j for which r matches s[i .. j-1]
Ends(r, s, i) ==
    CASE r.op = "in" -> IF i <= Len(s) /\ s[i] \in r.chars THEN {i + 1} ELSE {}
      [] r.op = "notin" -> IF i <= Len(s) /\ s[i] \notin r.chars THEN {i + 1} ELSE {}
      [] r.op = "bol" -> IF i = 1 THEN {i} ELSE {}
      [] r.op = "eol" -> IF i = Len(s) + 1 \/ (i = Len(s) /\ s[i] = NL) THEN {i} ELSE {}
      [] r.op = "cat" -> CatEnds(r.parts, 1, s, {i})
      [] r.op = "rep" -> RepEnds(r.sub, r.lo, r.hi, s, {i}, 0)
      [] r.op = "many" -> RepEnds(r.sub, r.lo, 0 - 1, s, {i}, 0)

\* pattern.match(s) is not None: a match that starts at the first character
Match(pattern, s) == Ends(pattern, s, 1) # {}

(***************************************************************************)
(* The compiled patterns.                                                  *)
(***************************************************************************)
D(n) == Rep(In(UnicodeDigit), n, n)

Digits1 == Many(In(UnicodeDigit), 1)

date_time_pattern ==
    Cat(<<Bol, D(4), Lit("-"), D(2), Lit("-"), D(2), Lit("T"),
          D(2), Lit(":"), D(2), Lit(":"), D(2), Eol>>)

time_pattern == Cat(<<Bol, D(2), Lit(":"), D(2), Lit(":"), D(2), Eol>>)

date_pattern == Cat(<<Bol, D(4), Lit("-"), D(2), Lit("-"), D(2), Eol>>)

duration_pattern ==
    Cat(<<Bol, Lit("P"),
          Opt(Cat(<<Digits1, Lit("Y")>>)),
          Opt(Cat(<<Digits1, Lit("M"), Opt(Cat(<<Digits1, Lit("D")>>))>>)),
          Opt(Cat(<<Lit("T"), Digits1, Lit("H")>>)),
          Opt(Cat(<<Digits1, Lit("M")>>)),
          Opt(Cat(<<Digits1, Lit("S")>>)),
          Eol>>)

email_pattern ==
    Cat(<<Bol, Many(In(EmailLocal), 1), Lit("@"), Many(In(EmailDomain), 1),
          Lit("."), Many(In(Lower \cup Upper), 2), Eol>>)

idn_email_pattern ==
    Cat(<<Bol, Many(In(EmailLocal), 1), Lit("@"), Many(In(EmailDomain), 1),
          Lit("."), Many(In(Lower \cup Upper), 2), Eol>>)

D13 == Rep(In(UnicodeDigit), 1, 3)

ipv4_pattern == Cat(<<Bol, D13, Lit("."), D13, Lit("."), D13, Lit("."), D13, Eol>>)

ipv6_pattern == Cat(<<Bol, Many(In(HexDigit \cup {":"}), 1), Eol>>)

H(n) == Rep(In(HexDigit), n, n)

uuid_pattern ==
    Cat(<<Bol, H(8), Lit("-"), H(4), Lit("-"), H(4), Lit("-"), H(4), Lit("-"), H(12), Eol>>)

uri_pattern == Cat(<<Bol, Many(In(UriChar), 1), Eol>>)

uri_reference_pattern == Cat(<<Bol, Many(In(UriChar), 1), Eol>>)

iri_pattern == Cat(<<Bol, Many(NotIn(ControlOrSpace), 1), Eol>>)

iri_reference_pattern == Cat(<<Bol, Many(NotIn(ControlOrSpace), 1), Eol>>)

uri_template_pattern == Cat(<<Bol, Many(In(UriChar), 1), Eol>>)

Segment == Many(NotIn({"/"}), 1)

json_pointer_pattern ==
    Cat(<<Bol, Lit("/"), Segment, Many(Cat(<<Lit("/"), Segment>>), 0), Eol>>)

relative_json_pointer_pattern ==
    Cat(<<Bol, Segment, Many(Cat(<<Lit("/"), Segment>>), 0), Eol>>)

\* the catch-all anchored like the other patterns: ^.*$
regex_pattern_anchored == Cat(<<Bol, Many(Dot, 0), Eol>>)

regex_pattern == Many(Dot, 0)

\* Python's None where a str is the other outcome
None == "<None>"

\* the chain with the uri test moved in front of the uuid test
match_data_type_uri_first(s) ==
    IF Match(date_time_pattern, s) THEN "date-time"
    ELSE IF Match(time_pattern, s) THEN "time"
    ELSE IF Match(date_pattern, s) THEN "date"
    ELSE IF Match(duration_pattern, s) THEN "duration"
    ELSE IF Match(email_pattern, s) THEN "email"
    ELSE IF Match(idn_email_pattern, s) THEN "idn-email"
    ELSE IF Match(ipv4_pattern, s) THEN "ipv4"
    ELSE IF Match(ipv6_pattern, s) THEN "ipv6"
    ELSE IF Match(uri_pattern, s) THEN "uri"
    ELSE IF Match(uuid_pattern, s) THEN "uuid"
    ELSE IF Match(uri_reference_pattern, s) THEN "uri-reference"
    ELSE IF Match(iri_pattern, s) THEN "iri"
    ELSE IF Match(iri_reference_pattern, s) THEN "iri-reference"
    ELSE IF Match(uri_template_pattern, s) THEN "uri-template"
    ELSE IF Match(json_pointer_pattern, s) THEN "json-pointer"
    ELSE IF Match(relative_json_pointer_pattern, s) THEN "relative-json-pointer"
    ELSE IF Match(regex_pattern, s) THEN "regex"
    ELSE None

match_data_type(s) ==
    IF Match(date_time_pattern, s) THEN "date-time"
    ELSE IF Match(time_pattern, s) THEN "time"
    ELSE IF Match(date_pattern, s) THEN "date"
    ELSE IF Match(duration_pattern, s) THEN "duration"
    ELSE IF Match(email_pattern, s) THEN "email"
    ELSE IF Match(idn_email_pattern, s) THEN "idn-email"
    ELSE IF Match(ipv4_pattern, s) THEN "ipv4"
    ELSE IF Match(ipv6_pattern, s) THEN "ipv6"
    ELSE IF Match(uuid_pattern, s) THEN "uuid"
    ELSE IF Match(uri_pattern, s) THEN "uri"
    ELSE IF Match(uri_reference_pattern, s) THEN "uri-reference"
    ELSE IF Match(iri_pattern, s) THEN "iri"
    ELSE IF Match(iri_reference_pattern, s) THEN "iri-reference"
    ELSE IF Match(uri_template_pattern, s) THEN "uri-template"
    ELSE IF Match(json_pointer_pattern, s) THEN "json-pointer"
    ELSE IF Match(relative_json_pointer_pattern, s) THEN "relative-json-pointer"
    ELSE IF Match(regex_pattern, s) THEN "regex"
    ELSE None


(***************************************************************************)
(* Python values.  A value is [k |-> type(value).__name__, v |-> content]; *)
(* a list holds a sequence of values, a dict the sequence of its           *)
(* <<key, value>> items in insertion order.  A str of the input holds its  *)
(* characters; a str the program writes (a type name, a tag, a dict key)   *)
(* is a TLA+ string.                                                       *)
(***************************************************************************)
JNull == [k |-> "NoneType", v |-> None]

JBool(b) == [k |-> "bool", v |-> b]

JInt(n) == [k |-> "int", v |-> n]

JFloat(text) == [k |-> "float", v |-> text]

JStr(chars) == [k |-> "str", v |-> chars]

PyStr(text) == [k |-> "str", v |-> text]

PyList(values) == [k |-> "list", v |-> values]

PyDict(items) == [k |-> "dict", v |-> items]

\* key in d
Has(d, key) == \E i \in 1..Len(d.v) : d.v[i][1] = key

\* d[key]
Get(d, key) == d.v[CHOOSE i \in 1..Len(d.v) : d.v[i][1] = key][2]

\* list(d.keys())
KeysOf(d) == [i \in 1..Len(d.v) |-> d.v[i][1]]

\* d[key] = value with the new key put in front of the others
dict_set_front(d, key, value) ==
    IF Has(d, key)
    THEN PyDict([i \in 1..Len(d.v) |-> IF d.v[i][1] = key THEN <<key, value>> ELSE d.v[i]])
    ELSE PyDict(<< <<key, value>> >> \o d.v)

\* d[key] = value: a key the dict holds keeps its place, a new key goes last
dict_set(d, key, value) ==
    IF Has(d, key)
    THEN PyDict([i \in 1..Len(d.v) |-> IF d.v[i][1] = key THEN <<key, value>> ELSE d.v[i]])
    ELSE PyDict(Append(d.v, <<key, value>>))

\* str.lower() on the names of the types json.loads produces
lower(name) == IF name = "NoneType" THEN "nonetype" ELSE name

\* the name of the type as it is, without lower()
type_name_as_is(obj) == obj.k

type_name(obj) == lower(obj.k)

\* bool(x) for the value of `pattern`
Truthy(x) == x # None /\ x # ""

\* the simple type of a property without the pattern
simple_property_no_pattern(value) == PyDict(<< <<"type", PyStr(type_name(value))>> >>)

\* lines 130-138: the schema of a property that is neither a dict nor a list
simple_property(value) ==
    LET base == PyDict(<< <<"type", PyStr(type_name(value))>> >>)
    IN  IF value.k = "str"
        THEN LET pattern == match_data_type(value.v)
             IN  IF Truthy(pattern) THEN dict_set(base, "pattern", PyStr(pattern)) ELSE base
        ELSE base

\* the top-level simple type classified like a property
simple_type_classified(obj) == simple_property(obj)

\* lines 105-107: the result for a value that is neither a dict nor a list
simple_type(obj) == PyStr(type_name(obj))

RECURSIVE generate_schema(_)
RECURSIVE add_properties(_, _, _)

\* the array schema taken from the last element
array_property_last(value) ==
    IF value.v # <<>>
    THEN PyDict(<< <<"type", PyStr("array")>>, <<"items", generate_schema(value.v[Len(value.v)])>> >>)
    ELSE PyDict(<< <<"type", PyStr("array")>> >>)

\* lines 118-128: the schema of a property whose value is a list
array_property(value) ==
    IF value.v # <<>>
    THEN PyDict(<< <<"type", PyStr("array")>>, <<"items", generate_schema(value.v[1])>> >>)
    ELSE PyDict(<< <<"type", PyStr("array")>> >>)

\* lines 115-138: the schema stored under one key
property_schema(value) ==
    IF value.k = "dict" THEN generate_schema(value)
    ELSE IF value.k = "list" THEN array_property(value)
    ELSE simple_property(value)

\* lines 114-138: the loop over json_object.items(), from item i on
add_properties(properties, items, i) ==
    IF i > Len(items)
    THEN properties
    ELSE add_properties(dict_set(properties, items[i][1], property_schema(items[i][2])),
                        items, i + 1)

generate_schema(obj) ==
    IF obj.k # "dict" /\ obj.k # "list"
    THEN simple_type(obj)
    ELSE IF obj.k = "list"
    THEN PyList([i \in 1..Len(obj.v) |-> generate_schema(obj.v[i])])
    ELSE PyDict(<< <<"type", PyStr("object")>>,
                   <<"properties", add_properties(PyDict(<<>>), obj.v, 1)>> >>)

(***************************************************************************)
(* The strings handed to match_data_type.                                  *)
(***************************************************************************)
MaxLen == 3

\* one character or more of every class the patterns tell apart
Alphabet == {"0", "a", "g", "P", ":", ".", "-", "@", "/", "{", SP, NL, ARABIC3, EACUTE}

ShortStrings == UNION {[1..k -> Alphabet] : k \in 0..MaxLen}

Year4 == {<<"2", "0", "2", "4">>, <<"0", "0", "0", "0">>, <<"9", "9", "9", "9">>}

Pair2 == {<<"0", "1">>, <<"1", "5">>, <<"3", "0">>}

DateTimeStrings ==
    {y \o <<"-">> \o mo \o <<"-">> \o d \o <<"T">> \o h \o <<":">> \o mi \o <<":">> \o <<"0", "0">> :
        y \in Year4, mo \in Pair2, d \in Pair2, h \in Pair2, mi \in Pair2}

Hex8 == {<<"5", "5", "0", "e", "8", "4", "0", "0">>, <<"F", "F", "F", "F", "F", "F", "F", "F">>}

Hex4 == {<<"e", "2", "9", "b">>, <<"4", "1", "d", "4">>, <<"A", "7", "1", "6">>}

Hex12 == {<<"4", "4", "6", "6", "5", "5", "4", "4", "0", "0", "0", "0">>,
          <<"d", "e", "a", "d", "b", "e", "e", "f", "0", "0", "0", "1">>}

UuidStrings ==
    {a \o <<"-">> \o b \o <<"-">> \o c \o <<"-">> \o d \o <<"-">> \o e :
        a \in Hex8, b \in Hex4, c \in Hex4, d \in Hex4, e \in Hex12}

\* "2024-01-15T10:30:00"
SampleDateTime ==
    <<"2", "0", "2", "4", "-", "0", "1", "-", "1", "5", "T", "1", "0", ":", "3", "0", ":", "0", "0">>

\* "550e8400-e29b-41d4-a716-446655440000"
SampleUuid ==
    <<"5", "5", "0", "e", "8", "4", "0", "0", "-", "e", "2", "9", "b", "-", "4", "1", "d", "4", "-",
      "a", "7", "1", "6", "-", "4", "4", "6", "6", "5", "5", "4", "4", "0", "0", "0", "0">>

\* one string or more for every pattern
BaseStrings ==
    { SampleDateTime, SampleUuid,
      <<"1", "0", ":", "3", "0", ":", "0", "0">>,
      <<"2", "0", "2", "4", "-", "0", "1", "-", "1", "5">>,
      <<"P", "1", "Y", "2", "M", "3", "D", "T", "4", "H", "5", "M", "6", "S">>,
      <<"P", "T", "1", "H">>,
      <<"P", "1", "D">>,
      <<"a", "@", "b", ".", "c", "o">>,
      <<"1", ".", "2", ".", "3", ".", "4">>,
      <<"9", "9", "9", ".", "9", "9", "9", ".", "9", "9", "9", ".", "9", "9", "9">>,
      <<"d", "e", "a", "d", ":", "b", "e", "e", "f">>,
      <<"h", "t", "t", "p", ":", "/", "/", "x", ".", "y", "/", "z", "?", "q", "=", "1">>,
      <<"A", "l", "i", "c", "e">>,
      <<"{", "i", "d", "}">>,
      <<"/", "a", SP, "b">>,
      <<"a", SP, "b", "/", "c">>,
      <<SP, "/", "/">> }

\* a base string with one character put before it or after it
NearStrings ==
    UNION {{s \o <<c>>, <<c>> \o s} : s \in BaseStrings, c \in Alphabet}

Strings == ShortStrings \cup DateTimeStrings \cup UuidStrings \cup BaseStrings \cup NearStrings

(***************************************************************************)
(* The values of the variables a specification does not use.               *)
(***************************************************************************)
NoFlow == [given |-> FALSE]

ClassifierIdle == data = <<>> /\ tag = None /\ cpc = "idle"

InferIdle == json_object = None /\ schema = None /\ ipc = "idle"

HookIdle ==
    /\ env = None /\ output = None /\ checks = None
    /\ flow = NoFlow /\ outcome = None

(***************************************************************************)
(* The classifier called on one string.                                    *)
(***************************************************************************)
InitClassify ==
    /\ data \in Strings
    /\ tag = None
    /\ cpc = "call"
    /\ InferIdle
    /\ HookIdle

Classify ==
    /\ cpc = "call"
    /\ tag' = match_data_type(data)
    /\ cpc' = "return"
    /\ UNCHANGED <<data, json_object, schema, ipc, env, output, checks, flow, outcome>>

SpecClassify == InitClassify /\ [][Classify]_vars

(***************************************************************************)
(* The catalog of the classifier, in its priority order.                   *)
(***************************************************************************)
Catalog ==
    << <<"date-time", date_time_pattern>>,
       <<"time", time_pattern>>,
       <<"date", date_pattern>>,
       <<"duration", duration_pattern>>,
       <<"email", email_pattern>>,
       <<"idn-email", idn_email_pattern>>,
       <<"ipv4", ipv4_pattern>>,
       <<"ipv6", ipv6_pattern>>,
       <<"uuid", uuid_pattern>>,
       <<"uri", uri_pattern>>,
       <<"uri-reference", uri_reference_pattern>>,
       <<"iri", iri_pattern>>,
       <<"iri-reference", iri_reference_pattern>>,
       <<"uri-template", uri_template_pattern>>,
       <<"json-pointer", json_pointer_pattern>>,
       <<"relative-json-pointer", relative_json_pointer_pattern>>,
       <<"regex", regex_pattern>> >>

CatalogTags == {Catalog[i][1] : i \in 1..Len(Catalog)}

Matching(s) == {i \in 1..Len(Catalog) : Match(Catalog[i][2], s)}

Earliest(I) == CHOOSE i \in I : \A j \in I : i <= j

\* s has the shape YYYY-MM-DDThh:mm:ss, written with the digits 0-9
IsDateTimeShape(s) ==
    /\ Len(s) = 19
    /\ \A i \in {1, 2, 3, 4, 6, 7, 9, 10, 12, 13, 15, 16, 18, 19} : s[i] \in AsciiDigit
    /\ s[5] = "-" /\ s[8] = "-" /\ s[11] = "T" /\ s[14] = ":" /\ s[17] = ":"

\* s has the shape 8-4-4-4-12 of hexadecimal digits
IsUuidShape(s) ==
    /\ Len(s) = 36
    /\ \A i \in 1..36 : IF i \in {9, 14, 19, 24} THEN s[i] = "-" ELSE s[i] \in HexDigit

\* C1: the classifier returns the tag of the earliest matcher of the priority order
\* that matches the string; a string of the date-time shape yields date-time and a
\* canonical UUID yields uuid, although uri, iri and regex match them as well.
C1_EarliestMatcherWins ==
    cpc = "return" =>
        /\ Matching(data) # {} => tag = Catalog[Earliest(Matching(data))][1]
        /\ Matching(data) = {} => tag = None
        /\ IsDateTimeShape(data) => tag = "date-time" /\ {10, 12, 17} \subseteq Matching(data)
        /\ IsUuidShape(data) => tag = "uuid" /\ {10, 12, 17} \subseteq Matching(data)

C1_Witness ==
    /\ cpc = "return"
    /\ IsUuidShape(data)
    /\ tag = "uuid"
    /\ Match(uri_pattern, data)

\* C2: for a string that is not empty the classifier returns a tag of the catalog,
\* never None.
C2_NeverNoMatch ==
    (cpc = "return" /\ data # <<>>) => (tag \in CatalogTags /\ tag # None)

\* a string that only the catch-all matches
C2_Witness ==
    /\ cpc = "return"
    /\ data # <<>>
    /\ Matching(data) = {17}
    /\ tag = "regex"


(***************************************************************************)
(* The decoded JSON values handed to generate_schema.                      *)
(***************************************************************************)
MaxItems == 2

MaxKeys == 2

Alice == <<"A", "l", "i", "c", "e">>

Oops == <<"o", "o", "p", "s">>

Leaves ==
    {JNull, JBool(TRUE), JInt(1), JFloat("1.5"),
     JStr(Alice), JStr(Oops), JStr(SampleUuid), JStr(<<>>)}

FewLeaves == {JNull, JInt(1), JStr(Alice), JStr(Oops)}

ListsOf(S, n) == UNION {{PyList(l) : l \in [1..len -> S]} : len \in 0..n}

\* the sequences of n keys of K, no key twice
KeyOrders(K, n) == {ks \in [1..n -> K] : \A i, j \in 1..n : ks[i] = ks[j] => i = j}

DictsOf(K, S, n) ==
    UNION {{PyDict([i \in 1..len |-> <<ks[i], vs[i]>>]) :
                ks \in KeyOrders(K, len), vs \in [1..len -> S]} : len \in 0..n}

FlatLists == ListsOf(Leaves, MaxItems)

FlatDicts == DictsOf({"id", "name", "x"}, Leaves, MaxKeys)

Inner ==
    FewLeaves \cup DictsOf({"x"}, FewLeaves, 1) \cup ListsOf({JInt(1), JStr(Oops)}, 1)

NestedLists == ListsOf(Inner, MaxItems)

\* an object with a list under a key, alone or after a simple property
ArrayProperties ==
    {PyDict(<< <<key, l>> >>) : key \in {"items", "tags"}, l \in NestedLists}
    \cup {PyDict(<< <<"id", JInt(1)>>, <<"items", l>> >>) : l \in NestedLists}

\* an object with an object under a key
ObjectProperties ==
    {PyDict(<< <<"name", d>>, <<"id", JNull>> >>) : d \in DictsOf({"id", "x"}, Leaves, 1)}

Values ==
    Leaves \cup FlatLists \cup FlatDicts \cup NestedLists \cup ArrayProperties
           \cup ObjectProperties

(***************************************************************************)
(* The inference called on one decoded JSON value.                         *)
(***************************************************************************)
InitInfer ==
    /\ json_object \in Values
    /\ schema = None
    /\ ipc = "call"
    /\ ClassifierIdle
    /\ HookIdle

Infer ==
    /\ ipc = "call"
    /\ schema' = generate_schema(json_object)
    /\ ipc' = "return"
    /\ UNCHANGED <<data, tag, cpc, json_object, env, output, checks, flow, outcome>>

SpecInfer == InitInfer /\ [][Infer]_vars

(***************************************************************************)
(* Claims about generate_schema.                                           *)
(***************************************************************************)
Returned == ipc = "return"

IsSimple(value) == value.k \notin {"dict", "list"}

Object(properties) == PyDict(<< <<"type", PyStr("object")>>, <<"properties", PyDict(properties)>> >>)

Primitive(name) == PyDict(<< <<"type", PyStr(name)>> >>)

PrimitiveWithPattern(name, pattern) ==
    PyDict(<< <<"type", PyStr(name)>>, <<"pattern", PyStr(pattern)>> >>)

\* {"id": 1, "name": "Alice"}
Scenario1 == PyDict(<< <<"id", JInt(1)>>, <<"name", JStr(Alice)>> >>)

\* {"items": [{"x": 1}, {"x": "oops"}]}
Scenario3 ==
    PyDict(<< <<"items", PyList(<< PyDict(<< <<"x", JInt(1)>> >>),
                                   PyDict(<< <<"x", JStr(Oops)>> >>) >>)>> >>)

\* C3 as stated: for {"id": 1, "name": "Alice"} the schema holds id of type "int"
\* without a pattern and name of type "str" without a pattern.
C3_AsStated ==
    (Returned /\ json_object = Scenario1) =>
        schema = Object(<< <<"id", Primitive("int")>>, <<"name", Primitive("str")>> >>)

\* C3 amended: for {"id": 1, "name": "Alice"} the schema holds id of type "int"
\* without a pattern and name of type "str" with the pattern "uri".
C3_AliceIsUri ==
    (Returned /\ json_object = Scenario1) =>
        schema = Object(<< <<"id", Primitive("int")>>,
                           <<"name", PrimitiveWithPattern("str", "uri")>> >>)

C3_Witness == Returned /\ json_object = Scenario1 /\ Has(Get(Get(schema, "properties"), "name"), "pattern")

RECURSIVE TagsIn(_)
\* every value stored under "pattern" anywhere in a schema
TagsIn(s) ==
    CASE s.k = "dict" ->
            (IF Has(s, "pattern") THEN {Get(s, "pattern").v} ELSE {})
            \cup UNION {TagsIn(s.v[i][2]) : i \in {j \in 1..Len(s.v) : s.v[j][1] # "pattern"}}
      [] s.k = "list" -> UNION {TagsIn(s.v[i]) : i \in 1..Len(s.v)}
      [] OTHER -> {}

\* the strings of a value that sit at a place the claim C4 lists: the value itself,
\* an element of the top-level array, an object property, the first element of an
\* array under an object property
StringsAtListedPlaces(value) ==
    CASE value.k = "str" -> {value.v}
      [] value.k = "list" -> {value.v[i].v : i \in {j \in 1..Len(value.v) : value.v[j].k = "str"}}
      [] value.k = "dict" ->
            {value.v[i][2].v : i \in {j \in 1..Len(value.v) : value.v[j][2].k = "str"}}
            \cup {value.v[i][2].v[1].v :
                    i \in {j \in 1..Len(value.v) :
                            /\ value.v[j][2].k = "list"
                            /\ value.v[j][2].v # <<>>
                            /\ value.v[j][2].v[1].k = "str"}}
      [] OTHER -> {}

\* C4 as stated: the tag of the classifier for every string at a listed place is
\* present in the result.
C4_AsStated ==
    Returned => \A s \in StringsAtListedPlaces(json_object) : match_data_type(s) \in TagsIn(schema)

\* C4 amended: the classifier is invoked for the strings that are values of object
\* properties, whose tag is the property's pattern; a string that is the top-level
\* value, an element of a top-level array or the first element of an array under an
\* object property is reported as the bare name "str" and no tag.
C4_OnlyPropertyStringsClassified ==
    Returned =>
        /\ json_object.k = "str" => schema = PyStr("str")
        /\ json_object.k = "list" =>
              \A i \in 1..Len(json_object.v) :
                  json_object.v[i].k = "str" => schema.v[i] = PyStr("str")
        /\ json_object.k = "dict" =>
              \A i \in 1..Len(json_object.v) :
                  LET value == json_object.v[i][2]
                      p == Get(Get(schema, "properties"), json_object.v[i][1])
                  IN  /\ value.k = "str" =>
                            /\ p = PrimitiveWithPattern("str", match_data_type(value.v))
                            /\ value.v = SampleUuid => Get(p, "pattern") = PyStr("uuid")
                            /\ value.v = <<>> => Get(p, "pattern") = PyStr("regex")
                      /\ (value.k = "list" /\ value.v # <<>> /\ value.v[1].k = "str") =>
                            Get(p, "items") = PyStr("str")

\* a string at the top level, left unclassified
C4_Witness == Returned /\ json_object = JStr(SampleUuid) /\ TagsIn(schema) = {}

AllowedNames == {"null", "bool", "int", "float", "number", "str"}

PythonNames == {"nonetype", "bool", "int", "float", "str"}

\* the type names reported for the simple values of json_object: the bare name of a
\* top-level simple value, the "type" of the simple properties of a top-level object
ReportedNames ==
    CASE IsSimple(json_object) -> {<<json_object, schema.v>>}
      [] json_object.k = "dict" ->
            {<<json_object.v[i][2], Get(Get(Get(schema, "properties"), json_object.v[i][1]), "type").v>> :
                i \in {j \in 1..Len(json_object.v) : IsSimple(json_object.v[j][2])}}
      [] OTHER -> {}

\* C5 as stated: the type name reported for a simple value is one of "null", "bool",
\* "int", "float", "number", "str", and the one of a JSON null is "null".
C5_AsStated ==
    Returned =>
        \A r \in ReportedNames : r[2] \in AllowedNames /\ (r[1] = JNull => r[2] = "null")

\* C5 amended: the type name reported for a simple value is one of "nonetype",
\* "bool", "int", "float", "str", and the one of a JSON null is "nonetype".
C5_PythonTypeNames ==
    Returned =>
        \A r \in ReportedNames :
            /\ r[2] \in PythonNames
            /\ r[1] = JNull <=> r[2] = "nonetype"
            /\ r[1].k = "str" <=> r[2] = "str"

\* a null under a key of an object
C5_Witness ==
    /\ Returned
    /\ json_object.k = "dict"
    /\ \E r \in ReportedNames : r[1] = JNull /\ r[2] = "nonetype"

\* obj with every list under a key cut down to its first element
FirstElementsOnly(obj) ==
    PyDict([i \in 1..Len(obj.v) |->
              IF obj.v[i][2].k = "list" /\ obj.v[i][2].v # <<>>
              THEN <<obj.v[i][1], PyList(<<obj.v[i][2].v[1]>>)>>
              ELSE obj.v[i]])

\* C6: the schema of a property whose value is an array a is an array schema with
\* an items entry exactly when a is not empty; items is the schema of a[0], and the
\* elements after it change nothing.
C6_FirstElementSampling ==
    (Returned /\ json_object.k = "dict") =>
        /\ \A i \in 1..Len(json_object.v) :
              LET a == json_object.v[i][2]
                  p == Get(Get(schema, "properties"), json_object.v[i][1])
              IN  a.k = "list" =>
                      /\ p.k = "dict"
                      /\ Get(p, "type") = PyStr("array")
                      /\ Has(p, "items") <=> a.v # <<>>
                      /\ a.v # <<>> => (KeysOf(p) = <<"type", "items">>
                                          /\ Get(p, "items") = generate_schema(a.v[1]))
                      /\ a.v = <<>> => KeysOf(p) = <<"type">>
        /\ schema = generate_schema(FirstElementsOnly(json_object))
        /\ json_object = Scenario3 =>
              schema = Object(<< <<"items",
                    PyDict(<< <<"type", PyStr("array")>>,
                              <<"items", Object(<< <<"x", Primitive("int")>> >>)>> >>)>> >>)

\* an array of two elements of different types under a key
C6_Witness ==
    /\ Returned
    /\ json_object = Scenario3
    /\ Has(Get(Get(schema, "properties"), "items"), "items")

\* C7: the schema of an object is an object schema whose properties have the keys of
\* the object, all of them and no other, in the object's order; the one of an empty
\* object has no property.
C7_KeysKeptInOrder ==
    (Returned /\ json_object.k = "dict") =>
        /\ schema.k = "dict"
        /\ KeysOf(schema) = <<"type", "properties">>
        /\ Get(schema, "type") = PyStr("object")
        /\ Get(schema, "properties").k = "dict"
        /\ KeysOf(Get(schema, "properties")) = KeysOf(json_object)
        /\ json_object.v = <<>> => Get(schema, "properties") = PyDict(<<>>)

\* an object of two keys that are not in alphabetical order
C7_Witness ==
    /\ Returned
    /\ json_object.k = "dict"
    /\ KeysOf(json_object) = <<"name", "id">>
    /\ KeysOf(Get(schema, "properties")) = <<"name", "id">>

(***************************************************************************)
(* The addon: Castor.__init__ reads the environment, Castor.response is    *)
(* called by the proxy with every flow that has a response.                *)
(***************************************************************************)
JSON == "application/json"

\* os.environ: a variable is a str, or unset (None)
Environments ==
    [CASTOR_OUTPUT : {None, "", "/schemas"}, CASTOR_CHECKS : {None, "", "0", "1"}]

\* os.getenv(name, default), as a Python value
getenv(e, name, default) == IF e[name] = None THEN default ELSE PyStr(e[name])

\* bool(x) of a Python value
truth(x) ==
    CASE x.k = "NoneType" -> FALSE
      [] x.k = "int" -> x.v # 0
      [] x.k = "str" -> x.v # ""

\* a flow: the Content-Type headers (None: no header) and what the bodies hold:
\* nothing, a JSON text, or a text json.loads rejects
Flows ==
    [given : {TRUE},
     req_content : {"empty", "json", "text"},
     req_type : {None, JSON, "text/plain"},
     resp_type : {None, JSON, "text/plain", "application/json; charset=utf-8"},
     resp_content : {"object", "array", "text"}]

\* what a part of the handler did, in order, and the exception that ended it
Did(events) == [events |-> events, raised |-> None]

Raised(events, exception) == [events |-> events, raised |-> exception]

\* two parts in sequence: the second runs when the first raised nothing
Then(a, b) == IF a.raised # None THEN a ELSE [events |-> a.events \o b.events, raised |-> b.raised]

\* lines 226-231: _write_schema when output is set
write_if_output(out, what) == IF truth(out) THEN <<what>> ELSE <<>>

\* lines 219-233: the request has the JSON content type, or checks are off
strict_request(f, out) ==
    IF f.req_content = "json"
    THEN Did(<<"req.json", "generate_schema(req)">> \o write_if_output(out, "_write_schema(req)"))
    ELSE Did(<<"req.json", "log.error">>)

\* lines 236-253 and 258-275: decode, and use the text when that fails; req_schema is
\* bound only by a successful decode
fallback_request(f, out) ==
    IF f.req_content = "json"
    THEN Did(<<"req.json", "generate_schema(req)">> \o write_if_output(out, "_write_schema(req)"))
    ELSE IF truth(out)
         THEN Raised(<<"req.json", "log.error", "req.get_text">>, "UnboundLocalError")
         ELSE Did(<<"req.json", "log.error", "req.get_text">>)

\* lines 212-279
request_part(f, out, chk) ==
    IF f.req_content # "empty" /\ (f.resp_type = JSON \/ ~truth(chk))
    THEN IF f.req_type # None
         THEN IF f.req_type = JSON \/ ~truth(chk)
              THEN strict_request(f, out)
              ELSE fallback_request(f, out)
         ELSE fallback_request(f, out)
    ELSE Did(<<>>)

\* lines 281-291: os.path.join(None, file_name) raises TypeError
uri_part(f, out, chk) ==
    IF (truth(out) /\ f.resp_type = JSON) \/ ~truth(chk)
    THEN IF out.k = "NoneType"
         THEN Raised(<<"os.path.join(req-uri)">>, "TypeError")
         ELSE Did(<<"os.path.join(req-uri)", "open(req-uri)">>)
    ELSE Did(<<>>)

\* lines 293-314
response_part(f, out, chk) ==
    IF f.resp_type = JSON \/ ~truth(chk)
    THEN CASE f.resp_content = "object" ->
                Did(<<"resp.json", "generate_schema(resp)">>
                    \o write_if_output(out, "_write_schema(resp)"))
           [] f.resp_content = "array" -> Did(<<"resp.json">>)
           [] f.resp_content = "text" -> Did(<<"resp.json", "log.error">>)
    ELSE Did(<<>>)

\* lines 196-314
run_response(f, out, chk) ==
    Then(Then(request_part(f, out, chk), uri_part(f, out, chk)), response_part(f, out, chk))

InitHook ==
    /\ env \in Environments
    /\ output = getenv(env, "CASTOR_OUTPUT", JNull)
    /\ checks = getenv(env, "CASTOR_CHECKS", JInt(1))
    /\ flow = NoFlow
    /\ outcome = Did(<<>>)
    /\ ClassifierIdle
    /\ InferIdle

response(f) ==
    /\ flow' = f
    /\ outcome' = run_response(f, output, checks)
    /\ UNCHANGED <<env, output, checks, data, tag, cpc, json_object, schema, ipc>>

NextHook == \E f \in Flows : response(f)

SpecHook == InitHook /\ [][NextHook]_vars

(***************************************************************************)
(* Claims about the response hook.                                         *)
(***************************************************************************)
Happened(event) == \E i \in 1..Len(outcome.events) : outcome.events[i] = event

\* C8: with CASTOR_CHECKS=0 the hook decodes a response whose Content-Type is not
\* "application/json", and its request; with the variable unset it skips them.
C8_ChecksZeroDisablesChecks ==
    (flow.given /\ flow.resp_type # JSON) =>
        /\ env.CASTOR_CHECKS = "0" =>
              /\ Happened("resp.json")
              /\ flow.req_content # "empty" => Happened("req.json")
        /\ env.CASTOR_CHECKS = None =>
              ~Happened("resp.json") /\ ~Happened("req.json")

\* the request body is not empty and the handler takes one of the two branches that
\* fall back to the text
InFallbackBranch ==
    /\ flow.given
    /\ flow.req_content # "empty"
    /\ flow.resp_type = JSON \/ ~truth(checks)
    /\ flow.req_type = None \/ (flow.req_type # JSON /\ truth(checks))

\* C9: when the request body does not decode in a fallback branch, the hook uses the
\* text, calls no inference, writes no request schema, raises nothing and goes on to
\* the response, with CASTOR_OUTPUT set or not.
C9_DecodeFailureFallsBackToText ==
    (InFallbackBranch /\ flow.req_content = "text") =>
        /\ Happened("req.get_text")
        /\ ~Happened("generate_schema(req)")
        /\ ~Happened("_write_schema(req)")
        /\ outcome.raised = None
        /\ Happened("resp.json")

\* C10: with CASTOR_OUTPUT unset the hook writes no file and attempts none; with
\* output enabled it writes the request URI file exactly when the response is
\* "application/json" or checks are disabled.
C10_FilesOnlyWhenOutputEnabled ==
    flow.given =>
        /\ env.CASTOR_OUTPUT = None =>
              /\ ~Happened("os.path.join(req-uri)")
              /\ ~Happened("open(req-uri)")
              /\ ~Happened("_write_schema(req)")
              /\ ~Happened("_write_schema(resp)")
        /\ truth(output) =>
              (Happened("open(req-uri)") <=> (flow.resp_type = JSON \/ ~truth(checks)))

=============================================================================
